---- MODULE Spec2Model ----
(***************************************************************************)
(* mcp-image-downloader: the batch download pipeline.                      *)
(*                                                                         *)
(* The model follows one invocation of the batch download, either through  *)
(* the tool handler (handleDownloadImagesBatch) or by a direct call of     *)
(* ImageDownloader.downloadBatch (as the progress test does).              *)
(*                                                                         *)
(* Item ids are 1-based here: item i is the map callback of index i-1.     *)
(*                                                                         *)
(* Scheduling follows the JavaScript run loop: a continuation of an await  *)
(* on an already settled promise (a granted acquire, a returned            *)
(* downloadSingle, Promise.all) is a microtask and runs before the         *)
(* completion of any I/O is delivered.                                     *)
(***************************************************************************)
EXTENDS Integers, Sequences, FiniteSets, TLC

\* Largest number of URLs in the batch.
MaxItems == 2

(***************************************************************************)
(* Inputs                                                                  *)
(***************************************************************************)

\* A URL as `new URL(url)` sees it: wellFormed is FALSE when the constructor
\* throws; search is the set of the hint substrings the query string holds.
Url(protocol, name, ext, search) ==
    [wellFormed |-> TRUE, protocol |-> protocol, name |-> name,
     ext |-> ext, search |-> search]

NotAUrl ==
    [wellFormed |-> FALSE, protocol |-> "", name |-> "not a url",
     ext |-> "", search |-> {}]

URLS ==
    { Url("https:", "a", ".jpg", {}),
      Url("https:", "b", ".png", {}),
      Url("https:", "page", ".html", {}),
      NotAUrl }

ImageExtensions == {".jpg", ".jpeg", ".png", ".gif", ".webp", ".bmp", ".tiff", ".svg"}

ImageQueryHints == {"format=", "type=image", ".jpg", ".png", ".webp"}

validateImageUrl(url) ==
    IF ~url.wellFormed THEN FALSE
    ELSE IF url.protocol \notin {"http:", "https:"} THEN FALSE
    ELSE url.ext \in ImageExtensions \/ url.search \cap ImageQueryHints # {}

\* The formats ImageProcessor.applyFormat has a case for.
SupportedFormats == {"jpeg", "jpg", "png", "webp", "gif", "tiff"}

\* The format argument of the tool ("original" is the handler's default).
ToolFormats == {"original", "png", "bmp"}

\* The concurrency values a caller may pass (nothing restricts them).
ConcurrencyValues == {0, 1, 2, 11}

\* The range the tool schema and validateDownloadOptions document.
MinConcurrency == 1

MaxConcurrency == 10

ValidConcurrency(c) == c \in MinConcurrency..MaxConcurrency

UrlLists == UNION { [1..n -> URLS] : n \in 0..MaxItems }

\* downloadBatch never looks at what a URL names: called directly, a URL
\* that parses and names no image runs exactly as one that names an image,
\* so the direct calls are drawn from the image URLs and the malformed ones.
DirectUrlLists(urlLists) ==
    { us \in urlLists :
        \A i \in DOMAIN us : ~us[i].wellFormed \/ validateImageUrl(us[i]) }

(***************************************************************************)
(* State                                                                   *)
(***************************************************************************)
VARIABLES
    entry,        \* "tool": handleDownloadImagesBatch; "direct": downloadBatch
    urls,         \* the URL list of the batch
    concurrency,  \* the concurrency option
    options,      \* the download options shared by the items
    pc,           \* "called", "rejected", "running", "returned", "threw", "responded"
    error,        \* the error the handler threw
    sem,          \* the Semaphore of the batch
    batchTracker, \* the BatchProgressTracker of the batch
    items,        \* per item: stage, probe answer, injected fault, settlement
    results,      \* the results array of downloadBatch
    requests,     \* network requests issued so far (HEAD and GET)
    onBatchProgress, \* whether the caller passed a batch-progress callback
    calls,        \* the snapshots the callback was invoked with, in order
    driver,       \* the code that calls a component on its own (no batch)
    now           \* Date.now(), in milliseconds since the call

vars == <<entry, urls, concurrency, options, pc, error, sem, batchTracker,
          items, results, requests, onBatchProgress, calls, driver, now>>

ItemIds == 1..Len(urls)

NoError == [message |-> "", urls |-> <<>>]

\* No component is driven on its own: a batch runs.
NoDriver == [component |-> "none"]

\* The caller's onBatchProgress function throws when it is invoked.
ThrowingCallback == [component |-> "callback"]

(***************************************************************************)
(* Semaphore                                                               *)
(***************************************************************************)
NoSemaphore == [constructed |-> FALSE]

NewSemaphore(max) == [max |-> max, current |-> 0, queue |-> <<>>]

\* Mutant of SemAcquire: the test admits one caller too many.
SemAcquireOffByOne(s, caller) ==
    IF s.current <= s.max
    THEN [sem |-> [s EXCEPT !.current = @ + 1], granted |-> TRUE]
    ELSE [sem |-> [s EXCEPT !.queue = Append(@, caller)], granted |-> FALSE]

\* Mutant of SemAcquire: a caller that has to wait is counted as a holder.
SemAcquireCountsWaiter(s, caller) ==
    IF s.current < s.max
    THEN [sem |-> [s EXCEPT !.current = @ + 1], granted |-> TRUE]
    ELSE [sem |-> [s EXCEPT !.current = @ + 1, !.queue = Append(@, caller)],
          granted |-> FALSE]

\* acquire(): granted at once below max, else the caller joins the queue.
SemAcquire(s, caller) ==
    IF s.current < s.max
    THEN [sem |-> [s EXCEPT !.current = @ + 1], granted |-> TRUE]
    ELSE [sem |-> [s EXCEPT !.queue = Append(@, caller)], granted |-> FALSE]

\* Mutant of SemRelease: the waiter that came last is resumed.
SemReleaseLifo(s) ==
    LET dec == [s EXCEPT !.current = @ - 1] IN
    IF Len(dec.queue) > 0
    THEN [sem |-> [dec EXCEPT !.current = @ + 1,
                              !.queue = SubSeq(@, 1, Len(@) - 1)],
          woken |-> {dec.queue[Len(dec.queue)]}]
    ELSE [sem |-> dec, woken |-> {}]

\* Mutant of SemRelease: the slot is freed and the head waiter resumed
\* without taking it.
SemReleaseFreesSlot(s) ==
    LET dec == [s EXCEPT !.current = @ - 1] IN
    IF Len(dec.queue) > 0
    THEN [sem |-> [dec EXCEPT !.queue = Tail(@)], woken |-> {Head(dec.queue)}]
    ELSE [sem |-> dec, woken |-> {}]

\* Mutant of SemRelease: the slot is freed but the head waiter is not resumed.
SemReleaseNoWake(s) ==
    [sem |-> [s EXCEPT !.current = @ - 1], woken |-> {}]

\* release(): one holder less; the head waiter, if any, takes the slot.
SemRelease(s) ==
    LET dec == [s EXCEPT !.current = @ - 1] IN
    IF Len(dec.queue) > 0
    THEN [sem |-> [dec EXCEPT !.current = @ + 1, !.queue = Tail(@)],
          woken |-> {Head(dec.queue)}]
    ELSE [sem |-> dec, woken |-> {}]

(***************************************************************************)
(* ProgressTracker                                                         *)
(***************************************************************************)
\* JavaScript numbers and null, as far as the time estimates need them.
Null == [kind |-> "null"]

NaN == [kind |-> "NaN"]

Number(n) == [kind |-> "number", value |-> n]

Infinity == [kind |-> "Infinity"]

Max(a, b) == IF a >= b THEN a ELSE b

\* (elapsedTime / (num / den)) * 100 - elapsedTime, for a positive percentage
\* num / den; the inputs of the model keep the division exact.
RemainingTime(num, den, elapsedTime) ==
    (elapsedTime * 100 * den) \div num - elapsedTime

\* Mutant of calculateETA: the estimate is not held at 0 from below.
CalculateETAUnclamped(percentage, elapsedTime) ==
    IF percentage <= 0 THEN Null
    ELSE Number(RemainingTime(percentage, 1, elapsedTime))

\* calculateETA: null for a percentage of 0 or less, else the estimate,
\* Math.max(0, ...).
calculateETA(percentage, elapsedTime) ==
    IF percentage <= 0 THEN Null
    ELSE Number(Max(0, RemainingTime(percentage, 1, elapsedTime)))

\* calculateBatchETA, called with completedItems / totalItems * 100: 0 / 0
\* is NaN, which is not <= 0 and stays NaN through Math.max; c / 0 is
\* Infinity, for which the estimate is Math.max(0, 0 - elapsedTime).
calculateBatchETA(completedItems, totalItems, elapsedTime) ==
    IF totalItems = 0
    THEN (IF completedItems = 0 THEN NaN ELSE Number(Max(0, 0 - elapsedTime)))
    ELSE IF completedItems <= 0 THEN Null
    ELSE Number(Max(0, RemainingTime(100 * completedItems, totalItems,
                                     elapsedTime)))

\* calculateAverageSpeed, in bytes per second.
calculateAverageSpeed(downloadedBytes, elapsedTime) ==
    IF elapsedTime <= 0 THEN 0
    ELSE (downloadedBytes * 1000) \div elapsedTime

\* new ProgressTracker(): startTime and lastUpdateTime are null, kept as 0,
\* which is what null counts as in their one use, `now - field`.
NewProgressTracker ==
    [startTime |-> 0, lastUpdateTime |-> 0, progressHistory |-> <<>>]

\* start()
StartTracker(t, clock) ==
    [startTime |-> clock, lastUpdateTime |-> clock, progressHistory |-> <<>>]

\* updateProgress(progress): the enhanced progress it pushes and returns
\* (the timestamp string is left out).
EnhancedProgress(t, progress, clock) ==
    [percentage |-> progress.percentage,
     downloadedBytes |-> progress.downloadedBytes,
     speed |-> progress.speed,
     elapsedTime |-> clock - t.startTime,
     estimatedTimeRemaining |->
         calculateETA(progress.percentage, clock - t.startTime),
     averageSpeed |->
         calculateAverageSpeed(progress.downloadedBytes, clock - t.startTime)]

\* Mutant of updateProgress: only the latest sample is kept.
UpdateProgressKeepsLatest(t, progress, clock) ==
    [t EXCEPT !.progressHistory = <<EnhancedProgress(t, progress, clock)>>,
              !.lastUpdateTime = clock]

updateProgress(t, progress, clock) ==
    [t EXCEPT !.progressHistory = Append(@, EnhancedProgress(t, progress, clock)),
              !.lastUpdateTime = clock]

\* Math.max(...speeds) over the speeds above 0, 0 when there is none.
PeakSpeed(history) ==
    LET speeds == {history[k].speed : k \in DOMAIN history} \cap {n \in Nat : n > 0}
    IN IF speeds = {} THEN 0
       ELSE CHOOSE m \in speeds : \A n \in speeds : n <= m

\* ProgressTracker.getSummary(): the object returned for an empty history
\* has four fields, the other one five.
getSummary(t) ==
    IF Len(t.progressHistory) = 0
    THEN [totalTime |-> 0, averageSpeed |-> 0, peakSpeed |-> 0,
          progressUpdates |-> 0]
    ELSE LET lastProgress == t.progressHistory[Len(t.progressHistory)] IN
         [totalTime |-> lastProgress.elapsedTime,
          averageSpeed |-> lastProgress.averageSpeed,
          peakSpeed |-> PeakSpeed(t.progressHistory),
          progressUpdates |-> Len(t.progressHistory),
          finalPercentage |-> lastProgress.percentage]

\* reset()
ResetTracker(t) == NewProgressTracker

(***************************************************************************)
(* BatchProgressTracker                                                    *)
(***************************************************************************)
NoTracker == [constructed |-> FALSE]

NewBatchTracker(totalItems) ==
    [totalItems |-> totalItems, completedItems |-> 0,
     activeTrackers |-> {}, completedTrackers |-> <<>>]

\* Mutant of CreateItemTracker: every tracker is registered under one id.
CreateItemTrackerUnderOneId(bt, itemId) ==
    [bt EXCEPT !.activeTrackers = @ \cup {1}]

\* createItemTracker: activeTrackers.set(itemId, new tracker); an entry the
\* map already holds under itemId is replaced.
CreateItemTracker(bt, itemId) ==
    [bt EXCEPT !.activeTrackers = @ \cup {itemId}]

\* The error createItemTracker raises: none, it has no throw statement.
CreateItemTrackerError(bt, itemId) == ""

\* Mutant of CompleteItem: the completion is counted twice.
CompleteItemCountsTwice(bt, itemId) ==
    IF itemId \in bt.activeTrackers
    THEN [bt EXCEPT !.completedTrackers = Append(@, itemId),
                    !.activeTrackers = @ \ {itemId},
                    !.completedItems = @ + 2]
    ELSE bt

\* Mutant of CompleteItem: the completion is not recorded.
CompleteItemNotRecorded(bt, itemId) == bt

\* Mutant of CompleteItem: the tracker is counted but stays active.
CompleteItemKeepsActive(bt, itemId) ==
    IF itemId \in bt.activeTrackers
    THEN [bt EXCEPT !.completedTrackers = Append(@, itemId),
                    !.completedItems = @ + 1]
    ELSE bt

\* completeItem: an active tracker moves to the completed list; no effect
\* for an id that is not active.
CompleteItem(bt, itemId) ==
    IF itemId \in bt.activeTrackers
    THEN [bt EXCEPT !.completedTrackers = Append(@, itemId),
                    !.activeTrackers = @ \ {itemId},
                    !.completedItems = @ + 1]
    ELSE bt

\* Mutant of OverallPercentage: the fraction is rounded, not the percentage.
OverallPercentageUnscaled(completed, total) ==
    IF total = 0
    THEN (IF completed = 0 THEN NaN ELSE Infinity)
    ELSE Number((2 * completed + total) \div (2 * total))

\* Math.round(completed / total * 100); 0 / 0 is NaN, c / 0 is Infinity.
OverallPercentage(completed, total) ==
    IF total = 0
    THEN (IF completed = 0 THEN NaN ELSE Infinity)
    ELSE Number((200 * completed + total) \div (2 * total))

\* getBatchProgress: the snapshot (its two time fields are left out; the
\* entries of activeDownloads are given by their item ids).
getBatchProgress(bt) ==
    [completed |-> bt.completedItems,
     total |-> bt.totalItems,
     overallPercentage |-> OverallPercentage(bt.completedItems, bt.totalItems),
     activeDownloads |-> bt.activeTrackers,
     activeCount |-> Cardinality(bt.activeTrackers)]

\* s.finalBytes || 0: the field when the summary has one and it is not 0.
FinalBytesOrZero(summary) ==
    IF "finalBytes" \in DOMAIN summary THEN summary.finalBytes ELSE 0

\* completedSummaries.reduce((sum, s) => sum + (s.finalBytes || 0), 0)
RECURSIVE SumFinalBytes(_)
SumFinalBytes(completedTrackers) ==
    IF completedTrackers = <<>> THEN 0
    ELSE FinalBytesOrZero(Head(completedTrackers).summary)
         + SumFinalBytes(Tail(completedTrackers))

\* completedSummaries.reduce((sum, s) => sum + s.averageSpeed, 0)
RECURSIVE SumAverageSpeed(_)
SumAverageSpeed(completedTrackers) ==
    IF completedTrackers = <<>> THEN 0
    ELSE Head(completedTrackers).summary.averageSpeed
         + SumAverageSpeed(Tail(completedTrackers))

\* BatchProgressTracker.getSummary(), given the {itemId, summary} entries of
\* completedTrackers: the batch progress, and totalBytes, averageSpeed (the
\* quotient sum / count, kept as the pair) and completedItems.
getBatchSummary(bt, completedTrackers) ==
    [batchProgress |-> getBatchProgress(bt),
     totalBytes |-> SumFinalBytes(completedTrackers),
     averageSpeed |-> IF Len(completedTrackers) > 0
                      THEN [sum |-> SumAverageSpeed(completedTrackers),
                            count |-> Len(completedTrackers)]
                      ELSE [sum |-> 0, count |-> 1],
     completedItems |-> completedTrackers]

(***************************************************************************)
(* downloadSingle: results and settlement                                  *)
(***************************************************************************)
\* An unset slot of the results array.
Hole == [hole |-> TRUE]

\* The promise of one downloadSingle call.
Pending == [kind |-> "pending", value |-> Hole]

Fulfilled(value) == [kind |-> "fulfilled", value |-> value]

Rejected(message) == [kind |-> "rejected", value |-> [message |-> message]]

\* typeMap of generateFilename ("" when the content type has no entry).
TypeMapExtension(contentType) ==
    CASE contentType = "image/jpeg" -> "jpg"
      [] contentType = "image/png" -> "png"
      [] contentType = "image/webp" -> "webp"
      [] contentType = "image/gif" -> "gif"
      [] OTHER -> ""

\* path.extname(baseName).slice(1)
ExtName(ext) ==
    CASE ext = ".jpg" -> "jpg"
      [] ext = ".png" -> "png"
      [] ext = ".html" -> "html"
      [] OTHER -> ""

\* No filename option was passed.
NoFilename == [name |-> "", ext |-> ""]

\* The stamp of a file name that carries no timestamp.
NoStamp == -1

\* generateFilename: `${nameWithoutExt}_${timestamp}.${extension}`, from the
\* base name of the URL, Date.now() and the extension chosen.
generateFilename(url, contentType, format, timestamp) ==
    [name |-> IF url.name = "" THEN "image" ELSE url.name,
     stamp |-> timestamp,
     ext |-> IF format # ""
             THEN (IF format = "jpeg" THEN "jpg" ELSE format)
             ELSE IF TypeMapExtension(contentType) # ""
             THEN TypeMapExtension(contentType)
             ELSE IF ExtName(url.ext) # "" THEN ExtName(url.ext)
             ELSE "jpg"]

\* The format of the image the server sends for the URL: a PNG, as its
\* answer to the HEAD request says.
SourceFormat(url) == "png"

\* createTransformer: the format the transformer encodes to. applyFormat
\* with the target format, with 'jpeg' for compression without a target
\* format; a transformer that only resizes keeps the format of its input.
createTransformer(o, inputFormat) ==
    IF o.format # "" THEN o.format
    ELSE IF o.compress THEN "jpeg"
    ELSE inputFormat

\* The format of the bytes on disk: the transformer's when processStream
\* writes the file, the server's when the response is piped to it.
WrittenFormat(url, o, via) ==
    IF via = "processStream" THEN createTransformer(o, SourceFormat(url))
    ELSE SourceFormat(url)

\* The extension that names a format: `format === 'jpeg' ? 'jpg' : format`.
ExtensionOf(format) == IF format = "jpeg" THEN "jpg" ELSE format

\* The size fs.stat reports for the written file.
FileSizes == {2048}

\* filename || this.generateFilename(url, imageInfo.contentType, format),
\* joined to the save path (the same directory for every item).
FilePath(url, info, o, timestamp) ==
    IF o.filename # NoFilename
    THEN [name |-> o.filename.name, stamp |-> NoStamp, ext |-> o.filename.ext]
    ELSE generateFilename(url, info.contentType, o.format, timestamp)

\* getFinalOutputPath: the path with the extension of the target format.
getFinalOutputPath(originalPath, format) ==
    IF format = "" THEN originalPath
    ELSE [originalPath EXCEPT !.ext = IF format = "jpeg" THEN "jpg" ELSE format]

\* No path was computed yet.
NoPath == [name |-> "", stamp |-> NoStamp, ext |-> ""]

\* The object returned at the end of the try block (its downloadedAt
\* timestamp is left out).
SuccessResult(url, info, finalPath, size) ==
    Fulfilled([success |-> TRUE, url |-> url,
               filePath |-> finalPath,
               filename |-> finalPath,
               size |-> size,
               contentType |-> info.contentType])

\* Mutant of CatchError: the failure result carries an (empty) file path.
CatchErrorWithPath(url, message) ==
    Fulfilled([success |-> FALSE, url |-> url, error |-> message,
               filePath |-> ""])

\* Mutant of CatchError: the error leaves downloadSingle.
Rethrow(url, message) == Rejected(message)

\* The catch block: every error becomes a returned failure result.
CatchError(url, message) ==
    Fulfilled([success |-> FALSE, url |-> url, error |-> message])

NoInfo == [contentType |-> "", contentLength |-> 0]

\* getImageInfo's catch block.
FallbackInfo == [contentType |-> "image/jpeg", contentLength |-> 0]

\* What a HEAD response may carry.
ProbeAnswers == {[contentType |-> "image/png", contentLength |-> 1024]}

\* axios rejects the HEAD request alike on a network error, a non-2xx status
\* and the timeout.
ProbeErrors == {"timeout of 10000ms exceeded"}

\* How the HEAD request for a URL can end: a response, or a rejection (the
\* only end for a URL that does not parse).
ProbeOutcomes(url) ==
    IF url.wellFormed
    THEN {[error |-> "", info |-> a] : a \in ProbeAnswers}
            \cup {[error |-> e, info |-> NoInfo] : e \in ProbeErrors}
    ELSE {[error |-> "Invalid URL", info |-> NoInfo]}

\* Mutant of getImageInfo: the rejection of the HEAD request leaves it.
GetImageInfoRethrows(outcome) ==
    [info |-> outcome.info, error |-> outcome.error]

\* getImageInfo: the answer of the response, or the fallback from its catch
\* block; no error leaves it.
getImageInfo(outcome) ==
    [info |-> IF outcome.error # "" THEN FallbackInfo ELSE outcome.info,
     error |-> ""]

MkdirErrors == {"Failed to create directory"}

FilenameErrors == {"Invalid URL"}

\* axios rejects alike on a network error, a non-2xx status and the timeout.
FetchErrors == {"timeout of 30000ms exceeded"}

UnsupportedFormatError == "Image processing failed: Unsupported format"

ProcessErrors == {"Image processing failed: Input buffer contains unsupported image format"}

WriteErrors == {"ENOSPC: no space left on device, write"}

StatErrors == {"ENOENT: no such file or directory, stat"}

\* Mutant of NeedsProcessing: only a target format sends the stream through
\* the processor.
NeedsProcessingForFormat(o) ==
    o.format # ""

\* JavaScript truthiness of the option values ("" and 0 stand for absent).
NeedsProcessing(o) ==
    o.format # "" \/ o.compress \/ o.maxWidth # 0 \/ o.maxHeight # 0

\* The errors the transform stage can end with; {} when it can only succeed
\* or fail, see TransformDone.
TransformErrors(o) ==
    IF NeedsProcessing(o)
    THEN IF o.format # "" /\ o.format \notin SupportedFormats
         THEN {UnsupportedFormatError}
         ELSE ProcessErrors
    ELSE WriteErrors

\* Mutant of TransformCanSucceed: applyFormat has a case for every format.
TransformAcceptsAnyFormat(o) == TRUE

\* Whether the transform stage can succeed.
TransformCanSucceed(o) ==
    ~(NeedsProcessing(o) /\ o.format # "" /\ o.format \notin SupportedFormats)

(***************************************************************************)
(* downloadBatch: helpers                                                  *)
(***************************************************************************)
\* samples: the length of the progress history of the item's downloadSingle.
\* path: the file the download writes; via: what writes it ("processStream"
\* or "pipeline", "" before the write starts).
NewItem ==
    [stage |-> "idle", info |-> NoInfo, path |-> NoPath, via |-> "",
     samples |-> 0, fault |-> "", settlement |-> Pending]

\* The argument of the callback on a progress event of the item `index`:
\* {...batchProgress, currentIndex, currentProgress}.
ProgressCallWithFlag(bt, index, progress) ==
    [completed |-> getBatchProgress(bt).completed,
     total |-> getBatchProgress(bt).total,
     overallPercentage |-> getBatchProgress(bt).overallPercentage,
     activeDownloads |-> getBatchProgress(bt).activeDownloads,
     activeCount |-> getBatchProgress(bt).activeCount,
     currentIndex |-> index,
     currentProgress |-> progress,
     justCompleted |-> TRUE]

ProgressCall(bt, index, progress) ==
    [completed |-> getBatchProgress(bt).completed,
     total |-> getBatchProgress(bt).total,
     overallPercentage |-> getBatchProgress(bt).overallPercentage,
     activeDownloads |-> getBatchProgress(bt).activeDownloads,
     activeCount |-> getBatchProgress(bt).activeCount,
     currentIndex |-> index,
     currentProgress |-> progress]

\* Mutant of CompletionCall: the snapshot is the one from before
\* completeItem(index).
CompletionCallBeforeCompleteItem(bt, index) ==
    [completed |-> getBatchProgress(bt).completed - 1,
     total |-> getBatchProgress(bt).total,
     overallPercentage |->
         OverallPercentage(bt.completedItems - 1, bt.totalItems),
     activeDownloads |-> getBatchProgress(bt).activeDownloads \cup {index},
     activeCount |-> Cardinality(bt.activeTrackers \cup {index}),
     currentIndex |-> index,
     justCompleted |-> TRUE]

\* The argument of the callback on the completion of the item `index`:
\* {...batchProgress, currentIndex, justCompleted: true}.
CompletionCall(bt, index) ==
    [completed |-> getBatchProgress(bt).completed,
     total |-> getBatchProgress(bt).total,
     overallPercentage |-> getBatchProgress(bt).overallPercentage,
     activeDownloads |-> getBatchProgress(bt).activeDownloads,
     activeCount |-> getBatchProgress(bt).activeCount,
     currentIndex |-> index,
     justCompleted |-> TRUE]

\* if (onBatchProgress) onBatchProgress(call): the callers' callbacks push
\* the snapshot on their list of updates.
Invoke(callback, log, call) ==
    IF callback THEN Append(log, call) ELSE log

\* Mutant of AcquireAll: the map callbacks start from the last URL.
RECURSIVE AcquireAllBackwards(_, _, _)
AcquireAllBackwards(s, k, n) ==
    IF k > n THEN [sem |-> s, granted |-> {}]
    ELSE LET rest == AcquireAllBackwards(s, k + 1, n)
             a == SemAcquire(rest.sem, k)
         IN [sem |-> a.sem,
             granted |-> rest.granted \cup (IF a.granted THEN {k} ELSE {})]

\* urls.map: every callback runs up to its acquire(), in index order.
RECURSIVE AcquireAll(_, _, _)
AcquireAll(s, k, n) ==
    IF k > n THEN [sem |-> s, granted |-> {}]
    ELSE LET a == SemAcquire(s, k)
             rest == AcquireAll(a.sem, k + 1, n)
         IN [sem |-> rest.sem,
             granted |-> rest.granted \cup (IF a.granted THEN {k} ELSE {})]

\* Mutant of InvalidUrls: only the syntax of the URL is checked.
MalformedUrls(us) == SelectSeq(us, LAMBDA u : ~u.wellFormed)

\* urls.filter(url => !validateImageUrl(url))
InvalidUrls(us) == SelectSeq(us, LAMBDA u : ~validateImageUrl(u))

\* format: format === 'original' ? null : format
HandlerOptions(o) ==
    [o EXCEPT !.format = IF @ = "original" THEN "" ELSE @]

\* Mutant of StoreResult: results.push(result), in completion order.
RECURSIVE FirstHole(_, _)
FirstHole(rs, k) ==
    IF k \notin DOMAIN rs THEN 0
    ELSE IF rs[k] = Hole THEN k
    ELSE FirstHole(rs, k + 1)

PushResult(rs, index, result) ==
    IF FirstHole(rs, 1) = 0 THEN rs ELSE [rs EXCEPT ![FirstHole(rs, 1)] = result]

\* results[index] = result
StoreResult(rs, index, result) == [rs EXCEPT ![index] = result]

\* The length of the results array: one past the last slot set.
RECURSIVE ResultsLength(_, _)
ResultsLength(rs, n) ==
    IF n = 0 THEN 0
    ELSE IF rs[n] # Hole THEN n
    ELSE ResultsLength(rs, n - 1)

\* Mutant of AwaitOutcome: the body raises on a failure result.
AwaitThrowsOnFailure(settlement) ==
    IF settlement.kind = "fulfilled" /\ settlement.value.success
    THEN "continues" ELSE "raises"

\* `await this.downloadSingle(...)`: the body goes on with the returned
\* result, whatever its success flag, and raises only on a rejection.
AwaitOutcome(settlement) ==
    IF settlement.kind = "fulfilled" THEN "continues" ELSE "raises"

\* Mutant of ReleasesGate: release() sits on the success path only.
ReleasesOnSuccessOnly(settlement) ==
    settlement.kind = "fulfilled" /\ settlement.value.success

\* The finally block releases the gate however the body ended.
ReleasesGate(settlement) == TRUE

\* Mutant of PromiseAll: Promise.race, settled by the first item.
PromiseRace(its) ==
    IF \E i \in DOMAIN its : its[i].stage = "rejected" THEN "rejected"
    ELSE IF \E i \in DOMAIN its : its[i].stage = "done" THEN "fulfilled"
    ELSE "pending"

\* Promise.all over the item promises.
PromiseAll(its) ==
    IF \E i \in DOMAIN its : its[i].stage = "rejected" THEN "rejected"
    ELSE IF \A i \in DOMAIN its : its[i].stage = "done" THEN "fulfilled"
    ELSE "pending"

\* Stages whose next step is a microtask.
MicroStages == {"granted", "settled", "completed", "raised"}

\* Stages in which the item holds the gate.
HoldingStages ==
    {"granted", "ensuring", "probing", "fetching", "transforming",
     "finalizing", "settled", "completed", "raised"}

MicroPending ==
    \/ \E i \in ItemIds : items[i].stage \in MicroStages
    \/ pc = "running" /\ PromiseAll(items) # "pending"
    \/ pc = "returned" /\ entry = "tool"

\* The completion of an I/O operation is delivered when no microtask is left.
IoReady == ~MicroPending

(***************************************************************************)
(* Initial state: the call, with its arguments                             *)
(***************************************************************************)
\* The format option of a direct call ("" when none is given).
DirectFormats == {"", "png", "bmp"}

\* The options of a call that asks for the format f and for nothing else.
FormatOnly(f) ==
    [format |-> f, compress |-> FALSE, maxWidth |-> 0, maxHeight |-> 0,
     filename |-> NoFilename]

\* The call with its arguments, drawn from the given sets; directDrivers
\* says what the callback of a direct call does (NoDriver: it returns).
InitCallBy(urlLists, concurrencies, toolOptions, directOptions, directCallbacks, directDrivers) ==
    /\ entry \in {"tool", "direct"}
    /\ urls \in (IF entry = "tool" THEN urlLists ELSE DirectUrlLists(urlLists))
    /\ concurrency \in concurrencies
    /\ options \in (IF entry = "tool" THEN toolOptions ELSE directOptions)
    /\ pc = "called"
    /\ error = NoError
    /\ sem = NoSemaphore
    /\ batchTracker = NoTracker
    /\ items = [i \in 1..Len(urls) |-> NewItem]
    /\ results = [i \in 1..Len(urls) |-> Hole]
    /\ requests = 0
    /\ onBatchProgress \in (IF entry = "tool" THEN {TRUE} ELSE directCallbacks)
    /\ calls = <<>>
    /\ driver \in (IF entry = "direct" /\ onBatchProgress THEN directDrivers
                   ELSE {NoDriver})
    /\ now = 0

\* The calls whose callback, when there is one, returns normally.
InitCall(urlLists, concurrencies, toolOptions, directOptions, directCallbacks) ==
    InitCallBy(urlLists, concurrencies, toolOptions, directOptions,
               directCallbacks, {NoDriver})

\* The calls that ask for a format at most.
InitFrom(urlLists, concurrencies, toolFormats, directFormats, directCallbacks) ==
    InitCall(urlLists, concurrencies,
             {FormatOnly(f) : f \in toolFormats},
             {FormatOnly(f) : f \in directFormats}, directCallbacks)

\* The handler always passes a callback; the direct calls here pass none.
Init == InitFrom(UrlLists, ConcurrencyValues, ToolFormats, DirectFormats, {FALSE})

\* The calls of the fair specification: one image URL and one malformed URL.
LiveUrlLists ==
    UNION { [1..n -> {Url("https:", "a", ".jpg", {}), NotAUrl}] : n \in 0..MaxItems }

LiveConcurrencyValues == {0, 1, 2}

InitLive ==
    InitFrom(LiveUrlLists, LiveConcurrencyValues, ToolFormats, DirectFormats, {FALSE})

(***************************************************************************)
(* handleDownloadImagesBatch and downloadBatch                             *)
(***************************************************************************)
\* The handler throws before anything is launched.
RejectInvalidUrls ==
    /\ pc = "called"
    /\ entry = "tool"
    /\ InvalidUrls(urls) # <<>>
    /\ pc' = "rejected"
    /\ error' = [message |-> "Invalid URLs found", urls |-> InvalidUrls(urls)]
    /\ UNCHANGED <<now, onBatchProgress, calls, driver, entry, urls,
                   concurrency, options, sem, batchTracker, items, results,
                   requests>>

\* downloadBatch up to `await Promise.all`: the gate and the tracker are
\* built and every map callback has called acquire().
DownloadBatch ==
    /\ pc = "called"
    /\ entry = "tool" => InvalidUrls(urls) = <<>>
    /\ LET acq == AcquireAll(NewSemaphore(concurrency), 1, Len(urls)) IN
          /\ sem' = acq.sem
          /\ items' = [i \in ItemIds |->
                         [items[i] EXCEPT !.stage =
                            IF i \in acq.granted THEN "granted" ELSE "waiting"]]
    /\ batchTracker' = NewBatchTracker(Len(urls))
    /\ options' = IF entry = "tool" THEN HandlerOptions(options) ELSE options
    /\ pc' = "running"
    /\ UNCHANGED <<now, onBatchProgress, calls, driver, entry, urls,
                   concurrency, error, results, requests>>

\* The map callback after its acquire(): the item tracker is created and
\* downloadSingle starts with ensureDirectory.
StartItem(i) ==
    /\ items[i].stage = "granted"
    /\ batchTracker' = CreateItemTracker(batchTracker, i)
    /\ items' = [items EXCEPT ![i].stage = "ensuring"]
    /\ UNCHANGED <<now, onBatchProgress, calls, driver, entry, urls,
                   concurrency, options, pc, error, sem, results, requests>>

\* Mutant of StageAfter: the GET request goes out before getImageInfo.
StageAfterWithoutProbe(stage) ==
    CASE stage = "ensuring" -> "fetching"
      [] stage = "probing" -> "fetching"
      [] stage = "fetching" -> "transforming"
      [] stage = "transforming" -> "finalizing"

\* The awaits of downloadSingle's try block, in their order: the stage that
\* follows the given one when its await returns normally.
StageAfter(stage) ==
    CASE stage = "ensuring" -> "probing"
      [] stage = "probing" -> "fetching"
      [] stage = "fetching" -> "transforming"
      [] stage = "transforming" -> "finalizing"

\* downloadSingle ends with the given settlement, after the error `fault`
\* ("" for none) was raised inside it; its locals are gone.
Settle(i, fault, settlement) ==
    items' = [items EXCEPT ![i].stage = "settled",
                           ![i].info = NoInfo,
                           ![i].path = NoPath,
                           ![i].via = "",
                           ![i].samples = 0,
                           ![i].fault = fault,
                           ![i].settlement = settlement]

\* ensureDirectory is done; on success the HEAD request goes out.
EnsureDirectoryDone(i) ==
    /\ IoReady
    /\ items[i].stage = "ensuring"
    /\ \/ /\ items' = [items EXCEPT ![i].stage = StageAfter("ensuring")]
          /\ requests' = requests + (IF urls[i].wellFormed THEN 1 ELSE 0)
       \/ /\ \E e \in MkdirErrors : Settle(i, e, CatchError(urls[i], e))
          /\ UNCHANGED requests
    /\ UNCHANGED <<now, onBatchProgress, calls, driver, entry, urls,
                   concurrency, options, pc, error, sem, batchTracker,
                   results>>

\* getImageInfo is done (with an answer or with its fallback), the filename
\* is generated and the GET request goes out.
ProbeDone(i) ==
    /\ IoReady
    /\ items[i].stage = "probing"
    /\ \E outcome \in ProbeOutcomes(urls[i]) :
          LET probed == getImageInfo(outcome) IN
          IF probed.error # ""
          THEN /\ Settle(i, probed.error, CatchError(urls[i], probed.error))
               /\ UNCHANGED requests
          ELSE IF urls[i].wellFormed \/ options.filename # NoFilename
          THEN /\ items' = [items EXCEPT
                      ![i].stage = StageAfter("probing"),
                      ![i].info = probed.info,
                      ![i].path = FilePath(urls[i], probed.info, options, now)]
               /\ requests' = requests + (IF urls[i].wellFormed THEN 1 ELSE 0)
          ELSE /\ \E e \in FilenameErrors : Settle(i, e, CatchError(urls[i], e))
               /\ UNCHANGED requests
    /\ UNCHANGED <<now, onBatchProgress, calls, driver, entry, urls,
                   concurrency, options, pc, error, sem, batchTracker,
                   results>>

\* The GET request is done.
FetchDone(i) ==
    /\ IoReady
    /\ items[i].stage = "fetching"
    /\ \/ /\ urls[i].wellFormed
          /\ items' = [items EXCEPT
                   ![i].stage = StageAfter("fetching"),
                   ![i].via = IF NeedsProcessing(options) THEN "processStream"
                              ELSE "pipeline",
                   ![i].path = IF NeedsProcessing(options)
                               THEN getFinalOutputPath(@, options.format)
                               ELSE @]
       \/ \E e \in FetchErrors : Settle(i, e, CatchError(urls[i], e))
    /\ UNCHANGED <<now, onBatchProgress, calls, driver, entry, urls,
                   concurrency, options, pc, error, sem, batchTracker,
                   results, requests>>

\* processStream, or the plain pipeline to the file, is done.
TransformDone(i) ==
    /\ IoReady
    /\ items[i].stage = "transforming"
    /\ \/ /\ TransformCanSucceed(options)
          /\ items' = [items EXCEPT ![i].stage = StageAfter("transforming")]
       \/ \E e \in TransformErrors(options) : Settle(i, e, CatchError(urls[i], e))
    /\ UNCHANGED <<now, onBatchProgress, calls, driver, entry, urls,
                   concurrency, options, pc, error, sem, batchTracker,
                   results, requests>>

\* fs.stat is done.
StatDone(i) ==
    /\ IoReady
    /\ items[i].stage = "finalizing"
    /\ \/ \E size \in FileSizes :
             Settle(i, "", SuccessResult(urls[i], items[i].info, items[i].path, size))
       \/ \E e \in StatErrors : Settle(i, e, CatchError(urls[i], e))
    /\ UNCHANGED <<now, onBatchProgress, calls, driver, entry, urls,
                   concurrency, options, pc, error, sem, batchTracker,
                   results, requests>>

\* The map callback after `await this.downloadSingle(...)`: the item is
\* marked complete, its result stored under its index and the callback
\* invoked; the body raises when the callback throws.
CompleteBatchItem(i) ==
    /\ items[i].stage = "settled"
    /\ IF AwaitOutcome(items[i].settlement) = "continues"
       THEN /\ batchTracker' = CompleteItem(batchTracker, i)
            /\ results' = StoreResult(results, i, items[i].settlement.value)
            /\ calls' = Invoke(onBatchProgress, calls,
                               CompletionCall(CompleteItem(batchTracker, i), i))
            /\ items' = [items EXCEPT ![i].stage =
                            IF onBatchProgress /\ driver = ThrowingCallback
                            THEN "raised" ELSE "completed"]
       ELSE /\ items' = [items EXCEPT ![i].stage = "raised"]
            /\ UNCHANGED <<batchTracker, results, calls>>
    /\ UNCHANGED <<now, onBatchProgress, driver, entry, urls, concurrency,
                   options, pc, error, sem, requests>>

\* The finally block of the map callback; the item promise settles.
ReleaseItem(i) ==
    /\ items[i].stage \in {"completed", "raised"}
    /\ LET rel == IF ReleasesGate(items[i].settlement)
                  THEN SemRelease(sem)
                  ELSE [sem |-> sem, woken |-> {}]
       IN /\ sem' = rel.sem
          /\ items' = [j \in ItemIds |->
                IF j = i
                THEN [items[j] EXCEPT !.stage =
                        IF items[i].stage = "completed" THEN "done" ELSE "rejected"]
                ELSE IF j \in rel.woken
                THEN [items[j] EXCEPT !.stage = "granted"]
                ELSE items[j]]
    /\ UNCHANGED <<now, onBatchProgress, calls, driver, entry, urls,
                   concurrency, options, pc, error, batchTracker, results,
                   requests>>

\* `await Promise.all(downloadPromises); return results`
SettleBatch ==
    /\ pc = "running"
    /\ PromiseAll(items) # "pending"
    /\ pc' = IF PromiseAll(items) = "fulfilled" THEN "returned" ELSE "threw"
    /\ UNCHANGED <<now, onBatchProgress, calls, driver, entry, urls,
                   concurrency, options, error, sem, batchTracker, items,
                   results, requests>>

\* The handler builds its response from the results.
Respond ==
    /\ pc = "returned"
    /\ entry = "tool"
    /\ pc' = "responded"
    /\ UNCHANGED <<now, onBatchProgress, calls, driver, entry, urls,
                   concurrency, options, error, sem, batchTracker, items,
                   results, requests>>

Next ==
    \/ RejectInvalidUrls
    \/ DownloadBatch
    \/ \E i \in ItemIds : StartItem(i)
    \/ \E i \in ItemIds : EnsureDirectoryDone(i)
    \/ \E i \in ItemIds : ProbeDone(i)
    \/ \E i \in ItemIds : FetchDone(i)
    \/ \E i \in ItemIds : TransformDone(i)
    \/ \E i \in ItemIds : StatDone(i)
    \/ \E i \in ItemIds : CompleteBatchItem(i)
    \/ \E i \in ItemIds : ReleaseItem(i)
    \/ SettleBatch
    \/ Respond

Spec == Init /\ [][Next]_vars

\* Every started operation ends and every pending continuation runs.
FairSpec == InitLive /\ [][Next]_vars /\ WF_vars(Next)

(***************************************************************************)
(* Progress events                                                         *)
(***************************************************************************)
\* Largest number of progress events delivered for one item.
MaxEvents == 1

\* axios delivers a progress event of the item's GET request:
\* onDownloadProgress adds a sample to the history of the item's download
\* and calls onProgress, which reports a fresh snapshot to the callback.
\* The response is a stream (responseType: 'stream'): its bytes, and with
\* them the events, come while the transform or the file write reads it.
ProgressEvent(i) ==
    /\ IoReady
    /\ items[i].stage = "transforming"
    /\ items[i].samples < MaxEvents
    /\ items' = [items EXCEPT ![i].samples = @ + 1]
    /\ calls' = Invoke(onBatchProgress, calls,
                       ProgressCall(batchTracker, i,
                                    [url |-> urls[i], sample |-> items[i].samples + 1]))
    /\ UNCHANGED <<now, onBatchProgress, driver, entry, urls, concurrency,
                   options, pc, error, sem, batchTracker, results, requests>>

\* The calls of the specification with progress events: batches of one image
\* URL (and, for the handler to reject, of a URL that names no image), with
\* and without a callback.
ProgressUrlLists ==
    UNION { [1..n -> {Url("https:", "a", ".jpg", {}),
                      Url("https:", "page", ".html", {})}] : n \in 0..MaxItems }

InitProgress ==
    InitFrom(ProgressUrlLists, {1, 2}, {"original"}, {""}, {TRUE, FALSE})

ProgressNext ==
    \/ Next
    \/ \E i \in ItemIds : ProgressEvent(i)

ProgressSpec == InitProgress /\ [][ProgressNext]_vars

(***************************************************************************)
(* Direct calls whose callback throws                                      *)
(***************************************************************************)
InitRaise ==
    InitCallBy(ProgressUrlLists, {1, 2}, {FormatOnly("original")},
               {FormatOnly("")}, {TRUE}, {ThrowingCallback})

RaiseSpec == InitRaise /\ [][Next]_vars

(***************************************************************************)
(* handleDownloadImage: the tool that downloads one image                  *)
(***************************************************************************)
\* No response was built yet.
NoResponse == [sent |-> FALSE]

\* The object the handler serializes into its response; the result carries
\* the fields of the DownloadResult (progressHistory is left out).
SingleResponse(result) ==
    [sent |-> TRUE, success |-> TRUE,
     message |-> "Image downloaded successfully", result |-> result]

\* The options of the calls of the tool.
SingleOptions ==
    {FormatOnly(f) : f \in ToolFormats}
        \cup {[FormatOnly("original") EXCEPT !.compress = TRUE]}

\* The tool is called with one URL; the item is the handler's one call of
\* downloadSingle.
InitSingle ==
    /\ entry = "single"
    /\ \E url \in URLS : urls = <<url>>
    /\ concurrency = 0
    /\ options \in SingleOptions
    /\ pc = "called"
    /\ error = NoError
    /\ sem = NoSemaphore
    /\ batchTracker = NoTracker
    /\ items = <<NewItem>>
    /\ results = <<Hole>>
    /\ requests = 0
    /\ onBatchProgress = FALSE
    /\ calls = <<>>
    /\ driver = [component |-> "single", response |-> NoResponse]
    /\ now = 0

\* The handler throws for a URL that validateImageUrl refuses.
SingleReject ==
    /\ pc = "called"
    /\ ~validateImageUrl(urls[1])
    /\ pc' = "rejected"
    /\ error' = [message |-> "Invalid image URL", urls |-> urls]
    /\ UNCHANGED <<now, onBatchProgress, calls, driver, entry, urls,
                   concurrency, options, sem, batchTracker, items, results,
                   requests>>

\* The handler builds the options and calls downloadSingle, which starts
\* with ensureDirectory.
SingleCall ==
    /\ pc = "called"
    /\ validateImageUrl(urls[1])
    /\ options' = HandlerOptions(options)
    /\ items' = [items EXCEPT ![1].stage = "ensuring"]
    /\ pc' = "awaiting"
    /\ UNCHANGED <<now, onBatchProgress, calls, driver, entry, urls,
                   concurrency, error, sem, batchTracker, results, requests>>

\* `const result = await downloader.downloadSingle(url, options)` returns
\* and the handler returns its response.
SingleRespond ==
    /\ pc = "awaiting"
    /\ items[1].stage = "settled"
    /\ items[1].settlement.kind = "fulfilled"
    /\ results' = StoreResult(results, 1, items[1].settlement.value)
    /\ driver' = [driver EXCEPT
          !.response = SingleResponse(items[1].settlement.value)]
    /\ items' = [items EXCEPT ![1].stage = "done"]
    /\ pc' = "responded"
    /\ UNCHANGED <<now, onBatchProgress, calls, entry, urls, concurrency,
                   options, error, sem, batchTracker, requests>>

SingleNext ==
    \/ SingleReject
    \/ SingleCall
    \/ \E i \in ItemIds : EnsureDirectoryDone(i)
    \/ \E i \in ItemIds : ProbeDone(i)
    \/ \E i \in ItemIds : FetchDone(i)
    \/ \E i \in ItemIds : TransformDone(i)
    \/ \E i \in ItemIds : StatDone(i)
    \/ SingleRespond

SingleSpec == InitSingle /\ [][SingleNext]_vars

(***************************************************************************)
(* The clock and the write options                                         *)
(***************************************************************************)
\* Largest value of the clock, in milliseconds.
MaxTime == 1

\* A millisecond passes while the batch waits for I/O.
Tick ==
    /\ pc = "running"
    /\ IoReady
    /\ now < MaxTime
    /\ now' = now + 1
    /\ UNCHANGED <<entry, urls, concurrency, options, pc, error, sem,
                   batchTracker, items, results, requests, onBatchProgress,
                   calls, driver>>

\* The options of the direct calls: nothing, a target format, compression,
\* a largest width, a largest height, an explicit file name.
DirectWriteOptions ==
    { FormatOnly(""),
      FormatOnly("png"),
      [FormatOnly("") EXCEPT !.compress = TRUE],
      [FormatOnly("") EXCEPT !.maxWidth = 800],
      [FormatOnly("") EXCEPT !.maxHeight = 600],
      [FormatOnly("") EXCEPT !.filename = [name |-> "x", ext |-> "jpg"]] }

\* The options the handler builds: it passes no file name to a batch.
ToolWriteOptions ==
    { FormatOnly("original"),
      [FormatOnly("original") EXCEPT !.compress = TRUE] }

WriteUrlLists ==
    UNION { [1..n -> {Url("https:", "a", ".jpg", {}),
                      Url("https:", "page", ".html", {})}] : n \in 0..MaxItems }

InitWrite ==
    InitCall(WriteUrlLists, {1, 2}, ToolWriteOptions, DirectWriteOptions, {FALSE})

WriteNext ==
    \/ Next
    \/ Tick

WriteSpec == InitWrite /\ [][WriteNext]_vars

(***************************************************************************)
(* The Semaphore on its own: callers acquire and release in any order      *)
(***************************************************************************)
\* Number of callers of the gate.
MaxCallers == 3

Callers == 1..MaxCallers

\* The capacities the gate is constructed with.
GateCapacities == {-1, 0, 1, 2}

\* No batch is running: the variables of the batch keep these values.
NoBatch ==
    /\ entry = "none"
    /\ urls = <<>>
    /\ concurrency = 0
    /\ options = FormatOnly("")
    /\ now = 0
    /\ pc = "none"
    /\ error = NoError
    /\ items = <<>>
    /\ results = <<>>
    /\ requests = 0
    /\ onBatchProgress = FALSE
    /\ calls = <<>>

\* callers: "idle", "waiting" (suspended in acquire), "holding", "released";
\* waitOrder: the callers in the order they were suspended; resumeOrder: the
\* suspended callers in the order they were resumed.
GateInit ==
    /\ NoBatch
    /\ batchTracker = NoTracker
    /\ \E max \in GateCapacities : sem = NewSemaphore(max)
    /\ driver = [component |-> "gate",
                 callers |-> [c \in Callers |-> "idle"],
                 waitOrder |-> <<>>,
                 resumeOrder |-> <<>>]

\* Caller c calls acquire().
GateAcquire(c) ==
    /\ driver.callers[c] = "idle"
    /\ LET a == SemAcquire(sem, c) IN
          /\ sem' = a.sem
          /\ driver' = [driver EXCEPT
                !.callers[c] = IF a.granted THEN "holding" ELSE "waiting",
                !.waitOrder = IF a.granted THEN @ ELSE Append(@, c)]
    /\ UNCHANGED <<now, entry, urls, concurrency, options, pc, error,
                   batchTracker, items, results, requests, onBatchProgress,
                   calls>>

\* Caller c, who holds a slot, calls release().
GateRelease(c) ==
    /\ driver.callers[c] = "holding"
    /\ LET r == SemRelease(sem) IN
          /\ sem' = r.sem
          /\ driver' = [driver EXCEPT
                !.callers = [d \in Callers |->
                               IF d = c THEN "released"
                               ELSE IF d \in r.woken THEN "holding"
                               ELSE @[d]],
                !.resumeOrder = IF r.woken = {} THEN @
                                ELSE Append(@, CHOOSE d \in r.woken : TRUE)]
    /\ UNCHANGED <<now, entry, urls, concurrency, options, pc, error,
                   batchTracker, items, results, requests, onBatchProgress,
                   calls>>

GateNext ==
    \/ \E c \in Callers : GateAcquire(c)
    \/ \E c \in Callers : GateRelease(c)

GateSpec == GateInit /\ [][GateNext]_vars

(***************************************************************************)
(* The BatchProgressTracker on its own: any sequence of calls              *)
(***************************************************************************)
\* Number of different item ids the caller uses.
MaxKeys == 2

ItemKeys == 1..MaxKeys

\* Number of calls the caller makes.
MaxCalls == 4

\* lastCall: the last call made, with the tracker as it was before it and
\* the error the call raised; created: the ids passed to createItemTracker.
TrackerInit ==
    /\ NoBatch
    /\ sem = NoSemaphore
    /\ \E total \in 0..MaxKeys : batchTracker = NewBatchTracker(total)
    /\ driver = [component |-> "tracker",
                 calls |-> 0,
                 lastCall |-> [op |-> "constructor", itemId |-> 0,
                               before |-> NoTracker, raised |-> ""],
                 created |-> <<>>]

\* The caller calls createItemTracker(itemId).
TrackerCreate(itemId) ==
    /\ driver.calls < MaxCalls
    /\ LET e == CreateItemTrackerError(batchTracker, itemId) IN
          /\ batchTracker' = IF e # "" THEN batchTracker
                             ELSE CreateItemTracker(batchTracker, itemId)
          /\ driver' = [driver EXCEPT
                !.calls = @ + 1,
                !.lastCall = [op |-> "createItemTracker", itemId |-> itemId,
                              before |-> batchTracker, raised |-> e],
                !.created = Append(@, itemId)]
    /\ UNCHANGED <<now, entry, urls, concurrency, options, pc, error, sem,
                   items, results, requests, onBatchProgress, calls>>

\* The caller calls completeItem(itemId).
TrackerComplete(itemId) ==
    /\ driver.calls < MaxCalls
    /\ batchTracker' = CompleteItem(batchTracker, itemId)
    /\ driver' = [driver EXCEPT
          !.calls = @ + 1,
          !.lastCall = [op |-> "completeItem", itemId |-> itemId,
                        before |-> batchTracker, raised |-> ""]]
    /\ UNCHANGED <<now, entry, urls, concurrency, options, pc, error, sem,
                   items, results, requests, onBatchProgress, calls>>

TrackerNext ==
    \/ \E itemId \in ItemKeys : TrackerCreate(itemId)
    \/ \E itemId \in ItemKeys : TrackerComplete(itemId)

TrackerSpec == TrackerInit /\ [][TrackerNext]_vars

(***************************************************************************)
(* A ProgressTracker on its own: start, updateProgress, getSummary, reset  *)
(***************************************************************************)
\* Largest length of a progress history.
MaxSamples == 2

\* Milliseconds between two readings of the clock.
TickMs == 10000

\* The progress objects passed to updateProgress: no total known, half way,
\* done, more loaded than the total, and a percentage below 0.
Samples ==
    { [percentage |-> 0, downloadedBytes |-> 0, speed |-> 0],
      [percentage |-> 50, downloadedBytes |-> 7680, speed |-> 2048],
      [percentage |-> 100, downloadedBytes |-> 15360, speed |-> 1024],
      [percentage |-> 200, downloadedBytes |-> 15360, speed |-> 0],
      [percentage |-> -10, downloadedBytes |-> 0, speed |-> 1024] }

\* The pairs <<completedItems, totalItems>> calculateBatchETA is tried on.
BatchCounts == {<<0, 0>>, <<1, 0>>, <<0, 2>>, <<1, 2>>, <<2, 2>>, <<4, 2>>}

\* tracker: the ProgressTracker; last: the last call and what it returned.
SamplerInit ==
    /\ NoBatch
    /\ sem = NoSemaphore
    /\ batchTracker = NoTracker
    /\ driver = [component |-> "sampler",
                 tracker |-> NewProgressTracker,
                 last |-> [op |-> "constructor"]]

\* Time passes between two calls.
SamplerTick ==
    /\ now < MaxTime * TickMs
    /\ now' = now + TickMs
    /\ UNCHANGED <<entry, urls, concurrency, options, pc, error, sem,
                   batchTracker, items, results, requests, onBatchProgress,
                   calls, driver>>

SamplerStart ==
    /\ driver' = [driver EXCEPT !.tracker = StartTracker(@, now),
                                !.last = [op |-> "start"]]
    /\ UNCHANGED <<now, entry, urls, concurrency, options, pc, error, sem,
                   batchTracker, items, results, requests, onBatchProgress,
                   calls>>

SamplerUpdate(progress) ==
    /\ Len(driver.tracker.progressHistory) < MaxSamples
    /\ driver' = [driver EXCEPT
          !.tracker = updateProgress(@, progress, now),
          !.last = [op |-> "updateProgress",
                    value |-> EnhancedProgress(driver.tracker, progress, now)]]
    /\ UNCHANGED <<now, entry, urls, concurrency, options, pc, error, sem,
                   batchTracker, items, results, requests, onBatchProgress,
                   calls>>

SamplerGetSummary ==
    /\ driver' = [driver EXCEPT
          !.last = [op |-> "getSummary", value |-> getSummary(driver.tracker)]]
    /\ UNCHANGED <<now, entry, urls, concurrency, options, pc, error, sem,
                   batchTracker, items, results, requests, onBatchProgress,
                   calls>>

SamplerReset ==
    /\ driver' = [driver EXCEPT !.tracker = ResetTracker(@),
                                !.last = [op |-> "reset"]]
    /\ UNCHANGED <<now, entry, urls, concurrency, options, pc, error, sem,
                   batchTracker, items, results, requests, onBatchProgress,
                   calls>>

\* calculateBatchETA as getBatchProgress calls it, for a batch tracker
\* constructed at time 0 with the given counts.
SamplerBatchETA(completedItems, totalItems) ==
    /\ driver' = [driver EXCEPT
          !.last = [op |-> "calculateBatchETA",
                    completedItems |-> completedItems,
                    totalItems |-> totalItems,
                    elapsedTime |-> now,
                    value |-> calculateBatchETA(completedItems, totalItems, now)]]
    /\ UNCHANGED <<now, entry, urls, concurrency, options, pc, error, sem,
                   batchTracker, items, results, requests, onBatchProgress,
                   calls>>

SamplerNext ==
    \/ SamplerTick
    \/ SamplerStart
    \/ \E progress \in Samples : SamplerUpdate(progress)
    \/ SamplerGetSummary
    \/ SamplerReset
    \/ \E counts \in BatchCounts : SamplerBatchETA(counts[1], counts[2])

SamplerSpec == SamplerInit /\ [][SamplerNext]_vars

(***************************************************************************)
(* A BatchProgressTracker and its item trackers: the caller creates an     *)
(* item tracker, feeds it, completes the item and asks for the summary     *)
(***************************************************************************)
\* The progress objects the item trackers are fed: the whole file received.
SummarySamples == {p \in Samples : p.percentage = 100}

\* The item tracker of an id that createItemTracker was not called with.
NoItemTracker == [constructed |-> FALSE]

\* trackers: the ProgressTracker objects createItemTracker returned;
\* completedTrackers: the {itemId, summary} entries; received: the bytes each
\* item has downloaded, as last reported to its tracker; last: the last
\* call and what it returned.
SummaryInit ==
    /\ NoBatch
    /\ sem = NoSemaphore
    /\ batchTracker = NewBatchTracker(MaxKeys)
    /\ driver = [component |-> "summary",
                 trackers |-> [k \in ItemKeys |-> NoItemTracker],
                 completedTrackers |-> <<>>,
                 received |-> [k \in ItemKeys |-> 0],
                 last |-> [op |-> "constructor"]]

\* createItemTracker(itemId), once per id.
SummaryCreate(itemId) ==
    /\ driver.trackers[itemId] = NoItemTracker
    /\ \A k \in DOMAIN driver.completedTrackers :
          driver.completedTrackers[k].itemId # itemId
    /\ batchTracker' = CreateItemTracker(batchTracker, itemId)
    /\ driver' = [driver EXCEPT
          !.trackers[itemId] = StartTracker(NewProgressTracker, now),
          !.last = [op |-> "createItemTracker"]]
    /\ UNCHANGED <<now, entry, urls, concurrency, options, pc, error, sem,
                   items, results, requests, onBatchProgress, calls>>

\* updateProgress(progress) on the item tracker of an active item.
SummaryUpdate(itemId, progress) ==
    /\ driver.trackers[itemId] # NoItemTracker
    /\ Len(driver.trackers[itemId].progressHistory) < MaxEvents
    /\ driver' = [driver EXCEPT
          !.trackers[itemId] = updateProgress(@, progress, now),
          !.received[itemId] = progress.downloadedBytes,
          !.last = [op |-> "updateProgress"]]
    /\ UNCHANGED <<now, entry, urls, concurrency, options, pc, error, sem,
                   batchTracker, items, results, requests, onBatchProgress,
                   calls>>

\* completeItem(itemId): the summary of the item's tracker is pushed and the
\* tracker leaves the map.
SummaryComplete(itemId) ==
    /\ driver.trackers[itemId] # NoItemTracker
    /\ batchTracker' = CompleteItem(batchTracker, itemId)
    /\ driver' = [driver EXCEPT
          !.completedTrackers =
              Append(@, [itemId |-> itemId,
                         summary |-> getSummary(driver.trackers[itemId])]),
          !.trackers[itemId] = NoItemTracker,
          !.last = [op |-> "completeItem"]]
    /\ UNCHANGED <<now, entry, urls, concurrency, options, pc, error, sem,
                   items, results, requests, onBatchProgress, calls>>

\* getSummary() of the batch tracker.
SummaryGet ==
    /\ driver' = [driver EXCEPT
          !.last = [op |-> "getSummary",
                    value |-> getBatchSummary(batchTracker,
                                              driver.completedTrackers)]]
    /\ UNCHANGED <<now, entry, urls, concurrency, options, pc, error, sem,
                   batchTracker, items, results, requests, onBatchProgress,
                   calls>>

SummaryNext ==
    \/ SamplerTick
    \/ \E itemId \in ItemKeys : SummaryCreate(itemId)
    \/ \E itemId \in ItemKeys : \E progress \in SummarySamples :
          SummaryUpdate(itemId, progress)
    \/ \E itemId \in ItemKeys : SummaryComplete(itemId)
    \/ SummaryGet

SummarySpec == SummaryInit /\ [][SummaryNext]_vars

(***************************************************************************)
(* Properties                                                              *)
(***************************************************************************)
Launched == pc \notin {"called", "rejected"}

BatchSettled == pc \in {"returned", "threw", "responded"}

BatchReturned == pc \in {"returned", "responded"}

\* The items that were granted the gate and have not released it.
HoldingItems == {i \in ItemIds : items[i].stage \in HoldingStages}

WaitingItems == {i \in ItemIds : items[i].stage = "waiting"}

\* C1: with a concurrency C in 1..10, at most C items hold the gate (are
\* between the grant and the release) in every reachable state.
C1_AtMostCInFlight ==
    ValidConcurrency(concurrency) => Cardinality(HoldingItems) <= concurrency

\* The gate is full and an item is kept waiting.
C1_Witness ==
    /\ ValidConcurrency(concurrency)
    /\ Cardinality(HoldingItems) = concurrency
    /\ WaitingItems # {}
    /\ \E i \in HoldingItems : items[i].stage = "fetching"

\* C2: the list downloadBatch returns has one entry per input URL, and the
\* entry at position i is the result of the URL at position i.
C2_ResultsInInputOrder ==
    BatchReturned =>
        /\ ResultsLength(results, Len(urls)) = Len(urls)
        /\ \A i \in ItemIds : results[i] # Hole /\ results[i].url = urls[i]

\* Two different URLs, the second finished first.
C2_Witness ==
    /\ BatchReturned
    /\ Len(urls) = 2
    /\ urls[1] # urls[2]
    /\ batchTracker.completedTrackers = <<2, 1>>

\* Some other item of the batch has failed.
SiblingFailed(i) == \E j \in ItemIds \ {i} : items[j].fault # ""

\* C3: the outcome of an item depends on its own download alone (it fails
\* exactly when an error was raised in its own downloadSingle), and an item
\* with a failed sibling is still granted the gate and run to its end.
C3_FailureIsolated ==
    /\ [](\A i \in ItemIds :
            items[i].stage = "done" =>
                /\ results[i] # Hole
                /\ results[i].success = (items[i].fault = ""))
    /\ \A i \in 1..MaxItems :
          (i \in ItemIds /\ SiblingFailed(i) /\ items[i].stage = "waiting")
              ~> (i \in ItemIds /\ items[i].stage = "done")

\* Item 1 failed while item 2 waited for its slot; item 2 then succeeded.
C3_Witness ==
    /\ Len(urls) = 2
    /\ concurrency = 1
    /\ items[1].fault # ""
    /\ items[2].stage = "done"
    /\ results[2].success

C6_BatchTerminates ==
    /\ (pc = "running" /\ ValidConcurrency(concurrency)) ~> BatchReturned
    /\ \A i \in 1..MaxItems :
          (i \in ItemIds /\ ValidConcurrency(concurrency)
                /\ items[i].stage = "waiting")
              ~> (i \in ItemIds /\ items[i].stage \in HoldingStages)

\* A batch with more items than slots has returned.
C6_Witness ==
    /\ BatchReturned
    /\ ValidConcurrency(concurrency)
    /\ concurrency < Len(urls)

\* C7: downloadSingle never raises: an error in directory creation, filename
\* generation, fetch, transform or stat is returned as a result with
\* success = false and the message of that error.
C7_SingleNeverRaises ==
    \A i \in ItemIds :
        /\ items[i].settlement.kind # "rejected"
        /\ items[i].fault # "" =>
              /\ items[i].settlement.kind = "fulfilled"
              /\ items[i].settlement.value.success = FALSE
              /\ items[i].settlement.value.error = items[i].fault
              /\ items[i].settlement.value.url = urls[i]

\* Two items failed at different points, one of them in filename generation.
C7_Witness ==
    /\ Len(urls) = 2
    /\ items[1].fault \in FilenameErrors
    /\ items[2].fault \in StatErrors
    /\ items[1].stage = "settled" \/ items[2].stage = "settled"

\* C8: a batch whose concurrency is not an integer in 1..10 is rejected at
\* launch, so that no network request is ever issued for it.
C8_InvalidConcurrencyRejected ==
    ~ValidConcurrency(concurrency) => requests = 0

\* C9: no gate with a capacity below 1 is ever constructed.
C9_NoGateBelowOne ==
    sem # NoSemaphore => sem.max >= 1

\* The format asked for has no case in applyFormat.
UnsupportedFormatRequested ==
    /\ options.format # ""
    /\ ~(entry = "tool" /\ options.format = "original")
    /\ options.format \notin SupportedFormats

\* C10: a batch whose output format is unsupported is rejected at launch, so
\* that no network request (probe or fetch) is ever issued for any item.
C10_UnsupportedFormatRejected ==
    UnsupportedFormatRequested => requests = 0

Range(f) == {f[x] : x \in DOMAIN f}

\* C11: called through the tool, a batch with at least one URL that is not an
\* accepted image URL is not launched: no item leaves its initial stage, no
\* network request is issued, and the error it fails with lists every
\* invalid URL and no other; a batch of valid URLs launches all its items.
C11_ValidationAtomic ==
    entry = "tool" =>
        IF \E i \in ItemIds : ~validateImageUrl(urls[i])
        THEN /\ ~Launched
             /\ requests = 0
             /\ \A i \in ItemIds : items[i].stage = "idle"
             /\ pc = "rejected" =>
                   /\ error.message = "Invalid URLs found"
                   /\ Range(error.urls) =
                         {urls[i] : i \in {j \in ItemIds : ~validateImageUrl(urls[j])}}
        ELSE /\ pc # "rejected"
             /\ error = NoError
             /\ Launched => \A i \in ItemIds : items[i].stage # "idle"

\* A batch was rejected for a malformed URL and for a URL that names no image.
C11_Witness ==
    /\ entry = "tool"
    /\ pc = "rejected"
    /\ Len(urls) = 2
    /\ Range(error.urls) = {NotAUrl, Url("https:", "page", ".html", {})}

\* C12: acquire() below max adds one holder and grants the caller at once,
\* the queue untouched; at max it appends the caller to the queue and leaves
\* the holder count as it was, and a suspended caller goes on only when it
\* is the head of the queue and a holder releases.
C12_AcquireGrantsOrQueues ==
    [][\A c \in Callers :
         /\ (driver.callers[c] = "idle" /\ driver'.callers[c] # "idle") =>
               IF sem.current < sem.max
               THEN /\ sem'.current = sem.current + 1
                    /\ sem'.queue = sem.queue
                    /\ driver'.callers[c] = "holding"
               ELSE /\ sem'.current = sem.current
                    /\ sem'.queue = Append(sem.queue, c)
                    /\ driver'.callers[c] = "waiting"
         /\ (driver.callers[c] = "waiting" /\ driver'.callers[c] # "waiting") =>
               /\ driver'.callers[c] = "holding"
               /\ sem.queue # <<>> /\ Head(sem.queue) = c
               /\ \E d \in Callers \ {c} :
                     driver.callers[d] = "holding" /\ driver'.callers[d] = "released"
      ]_vars

\* One caller was granted at once, the next was suspended with the gate full.
C12_Witness ==
    /\ driver.component = "gate"
    /\ sem.max = 1
    /\ sem.current = 1
    /\ sem.queue = <<3>>
    /\ driver.callers[1] = "holding"
    /\ driver.callers[3] = "waiting"

IsPrefix(a, b) ==
    /\ Len(a) <= Len(b)
    /\ \A k \in 1..Len(a) : a[k] = b[k]

\* C13: the suspended callers are resumed in the order they were suspended:
\* the callers resumed so far are the first ones of the suspension order.
C13_ResumedInFifoOrder ==
    driver.component = "gate" => IsPrefix(driver.resumeOrder, driver.waitOrder)

\* Caller 3 was suspended before caller 2 and both were resumed.
C13_Witness ==
    /\ driver.component = "gate"
    /\ driver.waitOrder = <<3, 2>>
    /\ driver.resumeOrder = <<3, 2>>

\* C14: release() with an empty queue takes one from the holder count; with
\* waiters it removes the head of the queue and no other, makes it a holder
\* and leaves the holder count as it was before the release.
C14_ReleaseHandsOff ==
    [][\A c \in Callers :
         (driver.callers[c] = "holding" /\ driver'.callers[c] = "released") =>
            IF sem.queue = <<>>
            THEN /\ sem'.current = sem.current - 1
                 /\ sem'.queue = <<>>
                 /\ \A d \in Callers \ {c} : driver'.callers[d] = driver.callers[d]
            ELSE /\ sem'.current = sem.current
                 /\ sem'.queue = Tail(sem.queue)
                 /\ driver'.callers[Head(sem.queue)] = "holding"
                 /\ \A d \in Callers \ {c, Head(sem.queue)} :
                       driver'.callers[d] = driver.callers[d]
      ]_vars

\* A release handed its slot to the head waiter while another still waits.
C14_Witness ==
    /\ driver.component = "gate"
    /\ Len(driver.resumeOrder) = 1
    /\ sem.queue # <<>>
    /\ sem.current = sem.max
    /\ \E c \in Callers : driver.callers[c] = "released"

\* C15: a failed HEAD request never fails the download: no item ever fails
\* with the error of its probe, and an item whose URL parses leaves Probing
\* for Fetching, with the answer of the probe or with content type
\* "image/jpeg" and size 0 (an unparsable URL fails in generateFilename).
C15_ProbeFailureAbsorbed ==
    [][\A i \in ItemIds :
         /\ items'[i].fault \notin ProbeErrors
         /\ (items[i].stage = "probing" /\ items'[i].stage # "probing") =>
               IF urls[i].wellFormed
               THEN /\ items'[i].stage = "fetching"
                    /\ items'[i].info \in ProbeAnswers
                          \cup {[contentType |-> "image/jpeg", contentLength |-> 0]}
               ELSE /\ items'[i].stage = "settled"
                    /\ items'[i].fault \in FilenameErrors
      ]_vars

\* An item whose probe fell back to the defaults was fetched and succeeded.
C15_Witness ==
    \E i \in ItemIds :
        /\ items[i].stage = "done"
        /\ results[i].success
        /\ results[i].contentType = "image/jpeg"

\* The transform of item i was refused for its target format.
FormatRefused(i) == i \in ItemIds /\ items[i].fault = UnsupportedFormatError

\* C16: with an unsupported target format an item that reaches the transform
\* ends Failed, with a failure result carrying that error, and never goes on
\* to Finalizing; it then releases the gate and reaches its end, and a
\* sibling waiting for the gate is granted it.
C16_UnsupportedFormatFailsItemOnly ==
    /\ [](\A i \in ItemIds :
            /\ (pc # "called" /\ options.format \notin SupportedFormats \cup {""}) =>
                  /\ items[i].stage # "finalizing"
                  /\ results[i] # Hole => ~results[i].success
            /\ FormatRefused(i) =>
                  /\ items[i].settlement.kind = "fulfilled"
                  /\ items[i].settlement.value.success = FALSE
                  /\ items[i].settlement.value.error = UnsupportedFormatError)
    /\ \A i \in 1..MaxItems :
          FormatRefused(i) ~> (i \in ItemIds /\ items[i].stage = "done")
    /\ \A i \in 1..MaxItems :
          (i \in ItemIds /\ items[i].stage = "waiting"
                /\ \E j \in ItemIds : FormatRefused(j))
              ~> (i \in ItemIds /\ items[i].stage \in HoldingStages)

\* Item 1 was refused for its format while item 2 waited; both reached their
\* end and the gate is free again.
C16_Witness ==
    /\ Len(urls) = 2
    /\ concurrency = 1
    /\ FormatRefused(1)
    /\ items[1].stage = "done"
    /\ items[2].stage = "done"
    /\ sem.current = 0

\* C17: every result of downloadSingle has one of two shapes: success with a
\* file path and a size and no error, or failure with an error message and
\* no file path; and a call produces its result once: a settled call keeps
\* its result.
C17_ResultShape ==
    /\ [](\A i \in ItemIds :
            items[i].settlement.kind = "fulfilled" =>
                LET r == items[i].settlement.value IN
                IF r.success
                THEN /\ {"filePath", "size"} \subseteq DOMAIN r
                     /\ r.size \in Nat
                     /\ "error" \notin DOMAIN r
                ELSE /\ "error" \in DOMAIN r
                     /\ r.error # ""
                     /\ "filePath" \notin DOMAIN r)
    /\ [][\A i \in ItemIds :
            items[i].settlement # Pending =>
                items'[i].settlement = items[i].settlement]_vars

\* One call returned a success result, another a failure result.
C17_Witness ==
    /\ Len(urls) = 2
    /\ items[1].settlement.kind = "fulfilled"
    /\ items[2].settlement.kind = "fulfilled"
    /\ items[1].settlement.value.success
    /\ ~items[2].settlement.value.success

\* C18: createItemTracker(id) for an id that is already active raises
\* DuplicateItemError and leaves the tracker as it was.
C18_DuplicateItemRejected ==
    (/\ driver.component = "tracker"
     /\ driver.lastCall.op = "createItemTracker"
     /\ driver.lastCall.itemId \in driver.lastCall.before.activeTrackers) =>
        /\ driver.lastCall.raised = "DuplicateItemError"
        /\ batchTracker = driver.lastCall.before

\* C19 as claimed: after any sequence of createItemTracker and completeItem
\* calls, completed count + number of active trackers <= total item count.
C19_CountsWithinTotal ==
    driver.component = "tracker" =>
        batchTracker.completedItems + Cardinality(batchTracker.activeTrackers)
            <= batchTracker.totalItems

\* createItemTracker was called at most once per id, with ids among the
\* totalItems ids 1..totalItems, as downloadBatch calls it.
CreatedOncePerIndex ==
    /\ \A k \in DOMAIN driver.created :
          driver.created[k] \in 1..batchTracker.totalItems
    /\ \A k, l \in DOMAIN driver.created :
          driver.created[k] = driver.created[l] => k = l

\* C19 amended: after any sequence of createItemTracker and completeItem
\* calls that creates at most one tracker per id and uses only totalItems
\* different ids, completed count + number of active trackers <= total.
C19_CountsWithinTotalPerIndex ==
    (driver.component = "tracker" /\ CreatedOncePerIndex) =>
        batchTracker.completedItems + Cardinality(batchTracker.activeTrackers)
            <= batchTracker.totalItems

\* Both ids were created, one was completed: the counts add up to the total.
C19_Witness ==
    /\ driver.component = "tracker"
    /\ CreatedOncePerIndex
    /\ batchTracker.totalItems = 2
    /\ driver.created = <<2, 1>>
    /\ batchTracker.completedItems = 1
    /\ batchTracker.activeTrackers = {1}

\* The step completes item i in the batch (its result is stored).
CompletionStep(i) ==
    items[i].stage = "settled" /\ items'[i].stage = "completed"

\* The step delivers a progress event of item i.
ProgressStep(i) == items'[i].samples = items[i].samples + 1

\* The snapshot of the tracker as it is after the step.
SnapshotAfter(call) ==
    /\ call.completed = batchTracker'.completedItems
    /\ call.total = Len(urls)
    /\ call.activeDownloads = batchTracker'.activeTrackers
    /\ call.activeCount = Cardinality(batchTracker'.activeTrackers)
    /\ call.overallPercentage =
          Number((200 * batchTracker'.completedItems + Len(urls))
                     \div (2 * Len(urls)))

\* C20: with a callback, every completion of an item (success or failure)
\* and every progress event invokes it exactly once, with the snapshot of
\* that moment and the item's index; the completion invocation carries the
\* completion flag and a progress invocation does not. Nothing else invokes
\* it, and without a callback nothing is invoked.
C20_CallbackPerEvent ==
    [][/\ \A i \in ItemIds :
            /\ CompletionStep(i) =>
                  IF onBatchProgress
                  THEN /\ Len(calls') = Len(calls) + 1
                       /\ SubSeq(calls', 1, Len(calls)) = calls
                       /\ LET call == calls'[Len(calls')] IN
                             /\ SnapshotAfter(call)
                             /\ call.currentIndex = i
                             /\ "justCompleted" \in DOMAIN call
                             /\ call.justCompleted = TRUE
                             /\ "currentProgress" \notin DOMAIN call
                  ELSE calls' = calls
            /\ ProgressStep(i) =>
                  IF onBatchProgress
                  THEN /\ Len(calls') = Len(calls) + 1
                       /\ SubSeq(calls', 1, Len(calls)) = calls
                       /\ LET call == calls'[Len(calls')] IN
                             /\ SnapshotAfter(call)
                             /\ call.currentIndex = i
                             /\ "justCompleted" \notin DOMAIN call
                             /\ call.currentProgress.url = urls[i]
                  ELSE calls' = calls
       /\ (\A i \in ItemIds : ~CompletionStep(i) /\ ~ProgressStep(i)) =>
             calls' = calls
      ]_vars

\* The callback was invoked for a progress event, for the completion of an
\* item that succeeded and for the completion of an item that failed.
C20_Witness ==
    /\ onBatchProgress
    /\ Len(urls) = 2
    /\ Len(calls) = 4
    /\ \E k \in DOMAIN calls : "currentProgress" \in DOMAIN calls[k]
    /\ \E k, l \in DOMAIN calls :
          /\ "justCompleted" \in DOMAIN calls[k]
          /\ "justCompleted" \in DOMAIN calls[l]
          /\ results[calls[k].currentIndex].success
          /\ ~results[calls[l].currentIndex].success

\* The stages in which the path of the item's file is computed and in use.
PathStages == {"fetching", "transforming", "finalizing"}

\* C21: no two items in flight at the same time have the same target path.
C21_DistinctTargetPaths ==
    \A i, j \in ItemIds :
        (/\ i # j
         /\ items[i].stage \in PathStages
         /\ items[j].stage \in PathStages) => items[i].path # items[j].path

\* The stages in which the response stream is being, or has been, written.
WriteStages == {"transforming", "finalizing"}

\* What the call asked for, after the handler's mapping of 'original'.
TransformRequested ==
    \/ options.format # ""
    \/ options.compress
    \/ options.maxWidth # 0
    \/ options.maxHeight # 0

\* C30: the stream goes through processStream exactly when a target format,
\* compression, a largest width or a largest height was requested; otherwise
\* the bytes are piped to the file and no item ever runs, or fails in, the
\* processor.
C30_TransformIffRequested ==
    \A i \in ItemIds :
        /\ items[i].stage \in WriteStages =>
              items[i].via = (IF TransformRequested THEN "processStream"
                              ELSE "pipeline")
        /\ items[i].stage \notin WriteStages => items[i].via = ""
        /\ items[i].fault \in ProcessErrors \cup {UnsupportedFormatError} =>
              TransformRequested
        /\ items[i].fault \in WriteErrors => ~TransformRequested

\* An item has been processed although only compression was requested.
C30_Witness ==
    \E i \in ItemIds :
        /\ items[i].stage = "finalizing"
        /\ items[i].via = "processStream"
        /\ options.format = ""
        /\ options.compress

\* The estimates the trackers have returned: those kept in the history, and
\* the one of the last calculateBatchETA call. num / den is the percentage.
Estimates ==
    { [num |-> driver.tracker.progressHistory[k].percentage,
       den |-> 1,
       elapsedTime |-> driver.tracker.progressHistory[k].elapsedTime,
       value |-> driver.tracker.progressHistory[k].estimatedTimeRemaining]
      : k \in DOMAIN driver.tracker.progressHistory }
    \cup (IF driver.last.op = "calculateBatchETA" /\ driver.last.totalItems > 0
          THEN {[num |-> 100 * driver.last.completedItems,
                 den |-> driver.last.totalItems,
                 elapsedTime |-> driver.last.elapsedTime,
                 value |-> driver.last.value]}
          ELSE {})

\* C24 as stated: the estimate is (elapsed / percentage) * 100 - elapsed for
\* every percentage above 0, null for a percentage of 0 or less, and never
\* negative.
C24_EtaIsFormula ==
    \A e \in Estimates :
        /\ e.num <= 0 => e.value = Null
        /\ e.num > 0 =>
              /\ e.value.kind = "number"
              /\ e.value.value * e.num = e.elapsedTime * (100 * e.den - e.num)
              /\ e.value.value >= 0

\* C24, amended: the estimate is (elapsed / percentage) * 100 - elapsed for
\* a percentage above 0 and up to 100, 0 for a percentage above 100, null
\* for a percentage of 0 or less; it is never negative.
C24_EtaIsFormulaHeldAtZero ==
    \A e \in Estimates :
        /\ e.num <= 0 => e.value = Null
        /\ e.num > 0 =>
              /\ e.value.kind = "number"
              /\ e.value.value >= 0
              /\ e.num <= 100 * e.den =>
                    e.value.value * e.num = e.elapsedTime * (100 * e.den - e.num)
              /\ e.num > 100 * e.den => e.value.value = 0

\* After 10 s a tracker that started at 0 was told 50 % and then 200 %: the
\* estimates are 10 s and 0.
C24_Witness ==
    /\ driver.component = "sampler"
    /\ Len(driver.tracker.progressHistory) = 2
    /\ driver.tracker.progressHistory[1].percentage = 50
    /\ driver.tracker.progressHistory[1].elapsedTime = 10000
    /\ driver.tracker.progressHistory[1].estimatedTimeRemaining = Number(10000)
    /\ driver.tracker.progressHistory[2].percentage = 200
    /\ driver.tracker.progressHistory[2].estimatedTimeRemaining = Number(0)

\* C25: getSummary returns, for an empty history, a summary whose five
\* fields are all 0, and otherwise the length of the history, the total
\* time, average speed and percentage of the last sample, and the largest
\* speed of the history.
C25_SummaryOfHistory ==
    driver.last.op = "getSummary" =>
        LET summary == driver.last.value
            history == driver.tracker.progressHistory
        IN /\ DOMAIN summary = {"totalTime", "averageSpeed", "peakSpeed",
                                "progressUpdates", "finalPercentage"}
           /\ IF Len(history) = 0
              THEN /\ summary.totalTime = 0
                   /\ summary.averageSpeed = 0
                   /\ summary.peakSpeed = 0
                   /\ summary.progressUpdates = 0
                   /\ summary.finalPercentage = 0
              ELSE /\ summary.progressUpdates = Len(history)
                   /\ summary.totalTime = history[Len(history)].elapsedTime
                   /\ summary.averageSpeed = history[Len(history)].averageSpeed
                   /\ summary.finalPercentage = history[Len(history)].percentage
                   /\ \A k \in DOMAIN history : history[k].speed <= summary.peakSpeed
                   /\ \E k \in DOMAIN history : history[k].speed = summary.peakSpeed

\* The bytes downloaded by the completed items, summed.
RECURSIVE ReceivedByCompleted(_)
ReceivedByCompleted(completedTrackers) ==
    IF completedTrackers = <<>> THEN 0
    ELSE driver.received[Head(completedTrackers).itemId]
         + ReceivedByCompleted(Tail(completedTrackers))

\* C22: the totalBytes of the batch summary is the sum, over the completed
\* items, of the bytes each of them downloaded.
C22_TotalBytesIsSum ==
    driver.last.op = "getSummary" =>
        driver.last.value.totalBytes
            = ReceivedByCompleted(driver.completedTrackers)

\* The items whose completion the map callback has recorded.
CompletedItems == {i \in ItemIds : items[i].stage \in {"completed", "done"}}

\* The items between createItemTracker and completeItem.
TrackedItems ==
    {i \in ItemIds : items[i].stage \in
        {"ensuring", "probing", "fetching", "transforming", "finalizing",
         "settled"}}

\* The snapshot counts the completed items, the active trackers and the
\* total of the running batch.
SnapshotCounts(snapshot) ==
    /\ snapshot.completed = Cardinality(CompletedItems)
    /\ snapshot.total = Len(urls)
    /\ snapshot.activeCount = Cardinality(TrackedItems)

\* C23 as stated: in every state of a batch, the empty one included,
\* getBatchProgress returns the counts and an overall percentage that is an
\* integer in 0..100, the nearest to completed / total * 100.
C23_PercentageInRange ==
    batchTracker # NoTracker =>
        LET snapshot == getBatchProgress(batchTracker) IN
        /\ SnapshotCounts(snapshot)
        /\ snapshot.overallPercentage.kind = "number"
        /\ snapshot.overallPercentage.value \in 0..100

\* C23, amended: the counts in every state; the percentage is the integer
\* in 0..100 nearest to completed / total * 100 in a batch of one URL or
\* more, and NaN in a batch with an empty URL list.
C23_PercentageInRangeUnlessEmpty ==
    batchTracker # NoTracker =>
        LET snapshot == getBatchProgress(batchTracker) IN
        /\ SnapshotCounts(snapshot)
        /\ IF Len(urls) = 0
           THEN snapshot.overallPercentage = NaN
           ELSE /\ snapshot.overallPercentage.kind = "number"
                /\ snapshot.overallPercentage.value \in 0..100
                /\ 200 * snapshot.completed
                      - 2 * Len(urls) * snapshot.overallPercentage.value
                        \in (0 - Len(urls))..Len(urls)

\* One of two items is completed and the other is active: 50 %.
C23_Witness ==
    /\ batchTracker # NoTracker
    /\ Len(urls) = 2
    /\ Cardinality(CompletedItems) = 1
    /\ Cardinality(TrackedItems) = 1
    /\ getBatchProgress(batchTracker).overallPercentage = Number(50)

\* The stages of downloadSingle before its end, in their order.
DownloadStages ==
    <<"ensuring", "probing", "fetching", "transforming", "finalizing">>

\* The stages of an item after its downloadSingle has ended.
EndedStages == {"settled", "completed", "done"}

Succeeded(item) ==
    item.settlement.kind = "fulfilled" /\ item.settlement.value.success

Failed(item) ==
    item.settlement.kind = "fulfilled" /\ ~item.settlement.value.success

\* A step of item i, from stage number k of DownloadStages: to the next
\* stage, or to the end. The download ends as succeeded from the last stage
\* only, and as failed from any; fetching starts with the answer of the
\* probe or its fallback.
DownloadStep(i, k) ==
    \/ /\ k < Len(DownloadStages)
       /\ items'[i].stage = DownloadStages[k + 1]
       /\ items'[i].settlement = Pending
       /\ items'[i].stage = "fetching" =>
             items'[i].info \in ProbeAnswers \cup {FallbackInfo}
    \/ /\ items'[i].stage = "settled"
       /\ \/ Failed(items'[i]) /\ items'[i].fault # ""
          \/ /\ Succeeded(items'[i])
             /\ items'[i].fault = ""
             /\ k = Len(DownloadStages)

\* C26: a download goes through its stages in the one order, ends once, as
\* succeeded or as failed, a failed fetch ends it without a transform, no
\* byte is written before the fetch has answered, and nothing follows the
\* end.
C26_StagesInOrder ==
    [][\A i \in ItemIds :
          /\ \A k \in DOMAIN DownloadStages :
                (items[i].stage = DownloadStages[k]
                    /\ items'[i].stage # items[i].stage) => DownloadStep(i, k)
          /\ (items'[i].stage \in Range(DownloadStages)
                    /\ items'[i].stage # "ensuring") =>
                items[i].stage \in Range(DownloadStages)
          /\ items'[i].via # "" =>
                items[i].stage \in {"fetching", "transforming", "finalizing"}
          /\ (items[i].stage = "fetching" /\ items'[i].stage = "settled") =>
                items'[i].fault \in FetchErrors /\ items'[i].via = ""
          /\ items[i].stage \in EndedStages =>
                /\ items'[i].stage \in EndedStages
                /\ items'[i].settlement = items[i].settlement
                /\ Succeeded(items[i]) \/ Failed(items[i])]_vars

\* One download has ended as failed in its fetch and another as succeeded.
C26_Witness ==
    \E i, j \in ItemIds :
        /\ items[i].stage \in EndedStages
        /\ Failed(items[i])
        /\ items[i].fault \in FetchErrors
        /\ items[j].stage \in EndedStages
        /\ Succeeded(items[j])

\* C27: an item's steps come in the order grant, tracker created, download,
\* marked complete, release: before its start the item has no tracker, its
\* download runs with its tracker active, a tracker is active only while
\* the item holds the gate, and the gate is given back only by an item that
\* is marked complete. The gate counts exactly the items between grant and
\* release.
C27_StepsOfAnItem ==
    Launched =>
        /\ sem.current = Cardinality(HoldingItems)
        /\ \A i \in ItemIds :
              /\ i \in batchTracker.activeTrackers => i \in HoldingItems
              /\ items[i].stage \in {"waiting", "granted"} =>
                    /\ i \notin batchTracker.activeTrackers
                    /\ i \notin Range(batchTracker.completedTrackers)
              /\ i \in TrackedItems =>
                    /\ i \in batchTracker.activeTrackers
                    /\ i \notin Range(batchTracker.completedTrackers)
              /\ items[i].stage = "completed" =>
                    /\ i \in HoldingItems
                    /\ i \notin batchTracker.activeTrackers
                    /\ i \in Range(batchTracker.completedTrackers)
              /\ i \notin HoldingItems \cup WaitingItems =>
                    /\ items[i].stage = "done"
                    /\ i \notin batchTracker.activeTrackers
                    /\ i \in Range(batchTracker.completedTrackers)

\* One item has given the gate back, marked complete, and the item that
\* waited for it runs its download with its tracker active.
C27_Witness ==
    /\ Launched
    /\ \E i, j \in ItemIds :
          /\ items[i].stage = "done"
          /\ i \in Range(batchTracker.completedTrackers)
          /\ items[j].stage = "fetching"
          /\ batchTracker.activeTrackers = {j}
          /\ sem.current = 1
          /\ sem.max = 1

\* The number of entries of the completed list that are the index i.
TimesCompleted(bt, i) ==
    Cardinality({k \in DOMAIN bt.completedTrackers : bt.completedTrackers[k] = i})

\* C28: an index becomes active once, before it was ever active or
\* completed, and completed once, from active; a completed index stays
\* completed and is not active again; when the batch has settled every
\* index is completed once and none is active, whatever the items' results.
C28_ActiveThenCompletedOnce ==
    [][Launched =>
         \A i \in ItemIds :
            /\ (i \in batchTracker'.activeTrackers
                    /\ i \notin batchTracker.activeTrackers) =>
                  /\ items[i].stage = "granted"
                  /\ TimesCompleted(batchTracker, i) = 0
            /\ TimesCompleted(batchTracker', i) # TimesCompleted(batchTracker, i) =>
                  /\ TimesCompleted(batchTracker, i) = 0
                  /\ TimesCompleted(batchTracker', i) = 1
                  /\ i \in batchTracker.activeTrackers
                  /\ i \notin batchTracker'.activeTrackers
            /\ (i \notin batchTracker'.activeTrackers
                    /\ i \in batchTracker.activeTrackers) =>
                  TimesCompleted(batchTracker', i) = 1
            /\ TimesCompleted(batchTracker', i) = 1 =>
                  i \notin batchTracker'.activeTrackers
            /\ BatchSettled' =>
                  /\ TimesCompleted(batchTracker', i) = 1
                  /\ batchTracker'.activeTrackers = {}]_vars

\* The batch has settled with one item failed and one succeeded, each
\* completed once.
C28_Witness ==
    /\ BatchSettled
    /\ Len(urls) = 2
    /\ \A i \in ItemIds : TimesCompleted(batchTracker, i) = 1
    /\ \E i, j \in ItemIds : Failed(items[i]) /\ Succeeded(items[j])

\* The items the gate has been granted to, now or earlier.
GrantedItems == {i \in ItemIds : items[i].stage \notin {"idle", "waiting"}}

C31_ExtensionNamesEncoding ==
    [][\A i \in ItemIds :
          (/\ items[i].stage = "finalizing"
           /\ Succeeded(items'[i])
           /\ items[i].info \in ProbeAnswers
           /\ options.filename = NoFilename) =>
              items'[i].settlement.value.filePath.ext
                  = ExtensionOf(WrittenFormat(urls[i], options, items[i].via))]_vars

\* The history h2 is the history h1 with the one sample appended.
AppendsOne(h1, h2, sample) ==
    /\ Len(h2) = Len(h1) + 1
    /\ \A k \in DOMAIN h1 : h2[k] = h1[k]
    /\ h2[Len(h2)] = sample

\* C32: an updateProgress call appends the one sample it returns to the
\* history and leaves the earlier samples as they are, start() and reset()
\* empty the history, and no other step changes it.
C32_HistoryAppendOnly ==
    [][LET before == driver.tracker.progressHistory
           after == driver'.tracker.progressHistory
           op == driver'.last.op
       IN /\ (driver' # driver /\ op = "updateProgress") =>
                AppendsOne(before, after, driver'.last.value)
          /\ (driver' # driver /\ op \in {"start", "reset"}) => after = <<>>
          /\ after # before =>
                /\ driver' # driver
                /\ op \in {"updateProgress", "start", "reset"}]_vars

\* A second sample was appended to a history of one.
C32_Witness ==
    /\ driver.component = "sampler"
    /\ driver.last.op = "updateProgress"
    /\ Len(driver.tracker.progressHistory) = 2
    /\ driver.tracker.progressHistory[2] = driver.last.value
    /\ driver.tracker.progressHistory[1] # driver.last.value

\* The callers that were granted the gate and have not released it.
Holders == {c \in Callers : driver.callers[c] = "holding"}

\* The callers suspended in acquire().
Suspended == {c \in Callers : driver.callers[c] = "waiting"}

\* C33: the holder count is between 0 and max and is the number of granted
\* and unreleased acquisitions; the queue holds the suspended callers, and
\* holds any only while the holder count is max.
C33_GateInvariant ==
    /\ 0 <= sem.current
    /\ sem.current <= sem.max
    /\ sem.current = Cardinality(Holders)
    /\ Range(sem.queue) = Suspended
    /\ Len(sem.queue) = Cardinality(Suspended)
    /\ sem.queue # <<>> => sem.current = sem.max

\* C34: when downloadBatch has settled the gate has no holder and no
\* waiter, no tracker is active and every item is counted as completed.
C34_IdleWhenSettled ==
    BatchSettled =>
        /\ sem.current = 0
        /\ sem.queue = <<>>
        /\ batchTracker.activeTrackers = {}
        /\ batchTracker.completedItems = Len(urls)

IsCompletionCall(call) == "justCompleted" \in DOMAIN call

\* The completion invocations of the callback, in their order.
CompletionCalls == SelectSeq(calls, IsCompletionCall)

\* C35: the k-th completion invocation reports k completed items, whatever
\* the order in which the items complete; when the batch has settled there
\* was one per item and the last reported completed = total, 100 % and no
\* active download.
C35_CompletedCountsUp ==
    /\ \A k \in DOMAIN CompletionCalls : CompletionCalls[k].completed = k
    /\ (BatchSettled /\ onBatchProgress /\ Len(urls) > 0) =>
          /\ Len(CompletionCalls) = Len(urls)
          /\ LET last == CompletionCalls[Len(CompletionCalls)] IN
                /\ last.completed = last.total
                /\ last.total = Len(urls)
                /\ last.overallPercentage = Number(100)
                /\ last.activeCount = 0
                /\ last.activeDownloads = {}

\* A batch of two has settled; its second item completed first.
C35_Witness ==
    /\ BatchSettled
    /\ onBatchProgress
    /\ Len(CompletionCalls) = 2
    /\ CompletionCalls[1].currentIndex = 2
    /\ CompletionCalls[2].currentIndex = 1

\* C36: a completion invocation for item i comes with i among the completed
\* items its snapshot counts, not among the snapshot's active downloads, and
\* with the result of i stored at position i; a progress invocation for i
\* comes with i among the active downloads and after no completion
\* invocation for i.
C36_CallbackSeesOwnItem ==
    \A k \in DOMAIN calls :
        LET call == calls[k]
            i == call.currentIndex
        IN IF IsCompletionCall(call)
           THEN /\ call.completed \in 1..Len(batchTracker.completedTrackers)
                /\ \E m \in 1..call.completed :
                      batchTracker.completedTrackers[m] = i
                /\ i \notin call.activeDownloads
                /\ results[i] # Hole
                /\ results[i].url = urls[i]
           ELSE /\ i \in call.activeDownloads
                /\ \A m \in 1..(k - 1) :
                      ~(IsCompletionCall(calls[m]) /\ calls[m].currentIndex = i)

\* The callback has seen a progress event of an item and then the item's
\* completion, while the other item of the batch was active.
C36_Witness ==
    \E k, l \in DOMAIN calls :
        /\ k < l
        /\ ~IsCompletionCall(calls[k])
        /\ IsCompletionCall(calls[l])
        /\ calls[k].currentIndex = calls[l].currentIndex
        /\ calls[l].activeCount = 1

\* C37: the response of the single-image tool says success only when the
\* result of downloadSingle says success.
C37_SuccessOnlyWhenDownloaded ==
    (driver.component = "single" /\ driver.response.sent) =>
        (driver.response.success => driver.response.result.success)

====
